---------------------------- MODULE Spec2Model ----------------------------
(***************************************************************************)
(* A model of the line interpreter of shell/src: the tokenizer             *)
(* (utils.rs parse_input, parse_cmd, parse_args), the redirection          *)
(* extractor (utils.rs handle_redirect, create_output_file), the           *)
(* dispatcher (main.rs handle_cmd), the five builtins and the external     *)
(* executor (main.rs), and the read-eval-print loop (main.rs main).        *)
(*                                                                         *)
(* A string is a sequence of one-character strings.  An Option<T> is a     *)
(* sequence of length at most one: <<>> is None and <<v>> is Some(v).      *)
(***************************************************************************)
EXTENDS Naturals, Integers, Sequences, FiniteSets, TLC

VARIABLES
    pc,                 \* position of the process in main / handle_cmd
    arm,                \* handle_cmd: the arm of `match self.cmd.trim()` taken
    input,              \* main: `input`, the line buffer
    chars,              \* parse_input: what is left of the `chars` iterator
    cmd,                \* Shell.cmd
    args,               \* Shell.args : Option<Vec<String>>
    cmd_local,          \* parse_cmd: `cmd`
    curr_arg,           \* parse_args: `curr_arg`
    args_local,         \* parse_args: `args`
    in_single_quotes,   \* parse_cmd / parse_args
    in_double_quotes,   \* parse_cmd / parse_args
    escape_next,        \* parse_args
    iter,               \* handle_redirect: what is left of `iter`
    cmd_args,           \* handle_redirect: `cmd_args`
    stdout_file,        \* handle_redirect: `stdout_file` : Option<File>
    stderr_file,        \* handle_redirect: `stderr_file` : Option<File>
    new_file,           \* handle_redirect: the value of create_output_file(..)?
                        \* before it is assigned
    stdout,             \* Shell.stdout: the characters buffered, not yet flushed
    stderr,             \* Shell.stderr: the ShellErrors buffered, not yet flushed
    files,              \* the regular files: path -> NoFile or its lines
    cwd,                \* the working directory of the process
    home,               \* the environment variable HOME : Option<String>
    status,             \* the exit status of the process : Option<Int>
    fatal,              \* the Err that main returned : Option<ShellError>
    spawned,            \* the child spawned in this turn : Option<record>
    turns               \* the lines read so far

tok_vars == <<chars, cmd, args, cmd_local, curr_arg, args_local,
              in_single_quotes, in_double_quotes, escape_next>>
redir_vars == <<iter, cmd_args, stdout_file, stderr_file, new_file>>
io_vars == <<stdout, stderr, files, spawned>>
env_vars == <<cwd, home, status, fatal>>
vars == <<pc, arm, input, tok_vars, redir_vars, io_vars, env_vars, turns>>

---------------------------------------------------------------------------
(* Bounds of the model *)

\* the longest line of the tokenizer specification (without its newline)
MaxLen == 5
\* the longest argument sequence of the extractor specification
MaxWords == 3
\* the most argument words of a line of the interpreter specification
MaxArgs == 2
\* the most lines the interpreter specification reads
MaxTurns == 2

---------------------------------------------------------------------------
(* Characters and words *)

SINGLE_QUOTES == "'"
DOUBLE_QUOTES == "\""
NEWLINE == "\n"
BACKSLASH == "\\"
SPACE == " "
PROMPT == "$"
TAB == "\t"

None == <<>>
Some(v) == <<v>>
IsSome(o) == o # <<>>
Unwrap(o) == o[1]

BUILTINS == { <<"c","d">>, <<"e","c","h","o">>, <<"e","x","i","t">>,
              <<"p","w","d">>, <<"t","y","p","e">> }

\* parse_args: the characters a backslash escapes inside double quotes
ESCAPABLE == {BACKSLASH, PROMPT, DOUBLE_QUOTES, NEWLINE}

\* char::is_whitespace, on the characters of the model
IsWhitespace(c) == c \in {SPACE, NEWLINE, TAB}

RECURSIVE TrimStart(_)
TrimStart(s) ==
    IF s # <<>> /\ IsWhitespace(Head(s)) THEN TrimStart(Tail(s)) ELSE s

RECURSIVE TrimEnd(_)
TrimEnd(s) ==
    IF s # <<>> /\ IsWhitespace(s[Len(s)])
    THEN TrimEnd(SubSeq(s, 1, Len(s) - 1)) ELSE s

\* str::trim
Trim(s) == TrimEnd(TrimStart(s))

\* the sequences over S of length at most n
SeqsUpTo(S, n) == UNION { [1..k -> S] : k \in 0..n }

---------------------------------------------------------------------------
(* The tokenizer: utils.rs parse_input, parse_cmd, parse_args *)

toggle_bool(b) == ~b

\* save_arg: push a non-empty argument
save_arg(arg, vec) == IF arg # <<>> THEN Append(vec, arg) ELSE vec

\* parse_cmd: the arm of `match c` that is taken
CmdArm(c, sq, dq) ==
    CASE c = SINGLE_QUOTES /\ ~dq -> "single"
      [] c = DOUBLE_QUOTES /\ ~sq -> "double"
      [] c = SPACE /\ ~sq /\ ~dq -> "break"
      [] OTHER -> "push"

\* parse_args: the arm of `match c` that is taken (escape_next is false)
ArgsArm_Unguarded(c, sq, dq) ==
    CASE c = SINGLE_QUOTES /\ ~dq -> "single"
      [] c = DOUBLE_QUOTES /\ ~sq -> "double"
      [] c = BACKSLASH -> "escape"
      [] c = SPACE /\ ~sq /\ ~dq -> "save"
      [] OTHER -> "push"

ArgsArm(c, sq, dq) ==
    CASE c = SINGLE_QUOTES /\ ~dq -> "single"
      [] c = DOUBLE_QUOTES /\ ~sq -> "double"
      [] c = BACKSLASH /\ ~sq -> "escape"
      [] c = BACKSLASH -> "push"
      [] c = SPACE /\ ~sq /\ ~dq -> "save"
      [] OTHER -> "push"

\* parse_args: what an escaped character adds to curr_arg
Escaped(c, dq) ==
    IF dq /\ c \notin ESCAPABLE THEN <<BACKSLASH, c>> ELSE <<c>>

\* parse_input: trim the line, take its characters, enter parse_cmd
ParseInput ==
    /\ pc = "parse_input"
    /\ chars' = Trim(input)
    /\ cmd_local' = <<>>
    /\ in_single_quotes' = FALSE
    /\ in_double_quotes' = FALSE
    /\ pc' = "parse_cmd"
    /\ UNCHANGED <<arm, input, cmd, args, curr_arg, args_local, escape_next,
                   redir_vars, io_vars, env_vars, turns>>

\* parse_cmd returns: self.cmd is set and parse_args starts on the iterator
EnterParseArgs(rest) ==
    /\ chars' = rest
    /\ cmd' = cmd_local
    /\ args_local' = <<>>
    /\ curr_arg' = <<>>
    /\ in_single_quotes' = FALSE
    /\ in_double_quotes' = FALSE
    /\ escape_next' = FALSE
    /\ cmd_local' = <<>>
    /\ pc' = "parse_args"
    /\ UNCHANGED args

\* parse_cmd: one iteration of `for c in chars`
ParseCmdStep ==
    /\ pc = "parse_cmd"
    /\ chars # <<>>
    /\ LET c == Head(chars)
           taken == CmdArm(c, in_single_quotes, in_double_quotes)
       IN  CASE taken = "single" ->
                  /\ in_single_quotes' = toggle_bool(in_single_quotes)
                  /\ chars' = Tail(chars)
                  /\ UNCHANGED <<pc, cmd, args, cmd_local, curr_arg, args_local,
                                 in_double_quotes, escape_next>>
             [] taken = "double" ->
                  /\ in_double_quotes' = toggle_bool(in_double_quotes)
                  /\ chars' = Tail(chars)
                  /\ UNCHANGED <<pc, cmd, args, cmd_local, curr_arg, args_local,
                                 in_single_quotes, escape_next>>
             [] taken = "break" -> EnterParseArgs(Tail(chars))
             [] OTHER ->
                  /\ cmd_local' = Append(cmd_local, c)
                  /\ chars' = Tail(chars)
                  /\ UNCHANGED <<pc, cmd, args, curr_arg, args_local,
                                 in_single_quotes, in_double_quotes, escape_next>>
    /\ UNCHANGED <<arm, input, redir_vars, io_vars, env_vars, turns>>

\* parse_cmd: the iterator is exhausted
ParseCmdEnd ==
    /\ pc = "parse_cmd"
    /\ chars = <<>>
    /\ EnterParseArgs(<<>>)
    /\ UNCHANGED <<arm, input, redir_vars, io_vars, env_vars, turns>>

\* parse_args: one iteration of `for c in chars`
ParseArgsStep ==
    /\ pc = "parse_args"
    /\ chars # <<>>
    /\ chars' = Tail(chars)
    /\ LET c == Head(chars)
           taken == ArgsArm(c, in_single_quotes, in_double_quotes)
       IN  IF escape_next
           THEN /\ curr_arg' = curr_arg \o Escaped(c, in_double_quotes)
                /\ escape_next' = toggle_bool(escape_next)
                /\ UNCHANGED <<args_local, in_single_quotes, in_double_quotes>>
           ELSE CASE taken = "single" ->
                       /\ in_single_quotes' = toggle_bool(in_single_quotes)
                       /\ UNCHANGED <<curr_arg, args_local, in_double_quotes,
                                      escape_next>>
                  [] taken = "double" ->
                       /\ in_double_quotes' = toggle_bool(in_double_quotes)
                       /\ UNCHANGED <<curr_arg, args_local, in_single_quotes,
                                      escape_next>>
                  [] taken = "escape" ->
                       /\ escape_next' = toggle_bool(escape_next)
                       /\ UNCHANGED <<curr_arg, args_local, in_single_quotes,
                                      in_double_quotes>>
                  [] taken = "save" ->
                       /\ args_local' = save_arg(curr_arg, args_local)
                       /\ curr_arg' = <<>>
                       /\ UNCHANGED <<in_single_quotes, in_double_quotes,
                                      escape_next>>
                  [] OTHER ->
                       /\ curr_arg' = Append(curr_arg, c)
                       /\ UNCHANGED <<args_local, in_single_quotes,
                                      in_double_quotes, escape_next>>
    /\ UNCHANGED <<pc, arm, input, cmd, args, cmd_local, redir_vars, io_vars,
                   env_vars, turns>>

\* parse_args: the iterator is exhausted; the last argument is saved and
\* self.args is None when there is no argument
ParseArgsEnd ==
    /\ pc = "parse_args"
    /\ chars = <<>>
    /\ LET v == save_arg(curr_arg, args_local)
       IN  /\ args_local' = <<>>
           /\ args' = IF v = <<>> THEN None ELSE Some(v)
    /\ curr_arg' = <<>>
    /\ pc' = "handle_cmd"
    /\ UNCHANGED <<arm, input, chars, cmd, cmd_local, in_single_quotes,
                   in_double_quotes, escape_next, redir_vars, io_vars,
                   env_vars, turns>>

Tokenize == ParseInput \/ ParseCmdStep \/ ParseCmdEnd \/ ParseArgsStep
               \/ ParseArgsEnd

---------------------------------------------------------------------------
(* The tokenizer on every short line *)

TokAlphabet == {"a", SPACE, SINGLE_QUOTES, DOUBLE_QUOTES, BACKSLASH, PROMPT}

\* what read_line can leave in `input`: a line and its newline
TokInputs == { s \o <<NEWLINE>> : s \in SeqsUpTo(TokAlphabet, MaxLen) }

\* the locals, the buffers and the process at the start
Constructed ==
    /\ arm = ""
    /\ chars = <<>>
    /\ cmd_local = <<>>
    /\ curr_arg = <<>>
    /\ args_local = <<>>
    /\ in_single_quotes = FALSE
    /\ in_double_quotes = FALSE
    /\ escape_next = FALSE
    /\ iter = <<>>
    /\ cmd_args = <<>>
    /\ stdout_file = None
    /\ stderr_file = None
    /\ new_file = None
    /\ stdout = <<>>
    /\ stderr = <<>>
    /\ status = None
    /\ fatal = None
    /\ spawned = None

InitTok ==
    /\ Constructed
    /\ cmd = <<>>
    /\ args = None
    /\ pc = "parse_input"
    /\ input \in TokInputs
    /\ files = <<>>
    /\ cwd = <<"/">>
    /\ home = None
    /\ turns = 1

NextTok == ParseInput \/ ParseCmdStep \/ ParseCmdEnd \/ ParseArgsStep
              \/ ParseArgsEnd

SpecTok == InitTok /\ [][NextTok]_vars

---------------------------------------------------------------------------
(* Words, paths and the file system *)

W_cd == <<"c","d">>
W_echo == <<"e","c","h","o">>
W_exit == <<"e","x","i","t">>
W_pwd == <<"p","w","d">>
W_type == <<"t","y","p","e">>

\* handle_redirect: the operator words of each stream
STDOUT_OPS == { <<">">>, <<"1",">">>, <<">",">">>, <<"1",">",">">> }
STDERR_OPS == { <<"2",">">>, <<"2",">",">">> }

\* the directories that exist, and the executable files in them
Dirs == { <<"/">>, <<"/","h">>, <<"/","b">> }
Executables == { <<"/","b","/","l","s">> }
\* env::split_paths(PATH)
SearchPath == << <<"/","b">> >>

\* slice::join(sep)
RECURSIVE Join(_, _)
Join(ws, sep) ==
    IF ws = <<>> THEN <<>>
    ELSE IF Len(ws) = 1 THEN ws[1]
    ELSE ws[1] \o sep \o Join(Tail(ws), sep)

\* the components of a path, left to right (acc: the component being read)
RECURSIVE Components(_, _)
Components(p, acc) ==
    IF p = <<>> THEN (IF acc = <<>> THEN <<>> ELSE <<acc>>)
    ELSE IF Head(p) = "/"
         THEN (IF acc = <<>> THEN <<>> ELSE <<acc>>) \o Components(Tail(p), <<>>)
         ELSE Components(Tail(p), Append(acc, Head(p)))

\* the components with `.` dropped and `..` applied
RECURSIVE Resolve(_, _)
Resolve(cs, done) ==
    IF cs = <<>> THEN done
    ELSE CASE Head(cs) = <<".">> -> Resolve(Tail(cs), done)
           [] Head(cs) = <<".",".">> ->
                Resolve(Tail(cs),
                        IF done = <<>> THEN done
                        ELSE SubSeq(done, 1, Len(done) - 1))
           [] OTHER -> Resolve(Tail(cs), Append(done, Head(cs)))

\* the absolute path the operating system resolves an absolute path to
Canonical(p) == <<"/">> \o Join(Resolve(Components(p, <<>>), <<>>), <<"/">>)

\* Path::is_absolute
IsAbsolute(p) == p # <<>> /\ Head(p) = "/"

\* Path::join
PathJoin(base, rel) ==
    IF IsAbsolute(rel) THEN rel
    ELSE IF base # <<>> /\ base[Len(base)] = "/" THEN base \o rel
    ELSE base \o <<"/">> \o rel

\* the file a path names, for a process whose working directory is dir
Absolute(dir, p) == Canonical(PathJoin(dir, p))

\* the directory that holds an absolute canonical path
Parent(p) ==
    LET cs == Components(p, <<>>)
    IN  <<"/">> \o Join(SubSeq(cs, 1, Len(cs) - 1), <<"/">>)

\* Path::exists
Exists(p, fs) ==
    LET q == Canonical(p)
    IN  q \in Dirs \/ q \in Executables \/ q \in DOMAIN fs

\* OpenOptions::new().append(true).create(true).open(path) succeeds
CanOpen(dir, path) ==
    LET q == Absolute(dir, path)
    IN  /\ path # <<>>
        /\ path[Len(path)] # "/"
        /\ q \notin Dirs
        /\ Parent(q) \in Dirs

\* the content of a file opened with truncate(true).create(true)
OpenedContent_Truncate(fs, q) == <<>>

\* the content of a file just opened with append(true).create(true): what it
\* held, and nothing when it is created
OpenedContent(fs, q) == IF q \in DOMAIN fs THEN fs[q] ELSE <<>>

\* the file system after a successful open of q
Opened(fs, q) ==
    [ x \in DOMAIN fs \cup {q} |->
        IF x = q THEN OpenedContent(fs, q) ELSE fs[x] ]

\* write_all on a handle opened for append
Appended(fs, q, text) == [ fs EXCEPT ![q] = @ \o text ]

\* a ShellError value
Error(kind, arg) == [ kind |-> kind, arg |-> arg ]

---------------------------------------------------------------------------
(* The redirection extractor: utils.rs handle_redirect *)

\* echo and execute call handle_redirect first
EnterRedirect(which) ==
    /\ arm' = which
    /\ iter' = IF IsSome(args) THEN Unwrap(args) ELSE <<>>
    /\ cmd_args' = <<>>
    /\ stdout_file' = None
    /\ stderr_file' = None
    /\ new_file' = None
    /\ pc' = "redirect"
    /\ UNCHANGED <<input, tok_vars, io_vars, env_vars, turns>>

\* `while let Some(arg) = iter.next()`, the `_` arm: the word is an argument
RedirectArg_PushFront(ca, arg) == <<arg>> \o ca

RedirectArg_Push(ca, arg) == Append(ca, arg)

RedirectArg ==
    /\ pc = "redirect"
    /\ iter # <<>>
    /\ Head(iter) \notin STDOUT_OPS \cup STDERR_OPS
    /\ cmd_args' = RedirectArg_Push(cmd_args, Head(iter))
    /\ iter' = Tail(iter)
    /\ UNCHANGED <<pc, arm, input, tok_vars, stdout_file, stderr_file,
                   new_file, io_vars, env_vars, turns>>

\* create_output_file(arg): None without a path; the file opened for append
\* and created when absent; or the error of the open
create_output_file_Strict(arg, dir, fs) ==
    IF arg = None
    THEN [ ok |-> FALSE, file |-> None, fs |-> fs ]
    ELSE IF CanOpen(dir, Unwrap(arg))
    THEN [ ok |-> TRUE, file |-> Some(Absolute(dir, Unwrap(arg))),
           fs |-> Opened(fs, Absolute(dir, Unwrap(arg))) ]
    ELSE [ ok |-> FALSE, file |-> None, fs |-> fs ]

\* create_output_file that takes a failed open for no destination
create_output_file_Lenient(arg, dir, fs) ==
    IF arg = None \/ ~CanOpen(dir, Unwrap(arg))
    THEN [ ok |-> TRUE, file |-> None, fs |-> fs ]
    ELSE [ ok |-> TRUE, file |-> Some(Absolute(dir, Unwrap(arg))),
           fs |-> Opened(fs, Absolute(dir, Unwrap(arg))) ]

create_output_file(arg, dir, fs) ==
    IF arg = None
    THEN [ ok |-> TRUE, file |-> None, fs |-> fs ]
    ELSE IF CanOpen(dir, Unwrap(arg))
    THEN [ ok |-> TRUE, file |-> Some(Absolute(dir, Unwrap(arg))),
           fs |-> Opened(fs, Absolute(dir, Unwrap(arg))) ]
    ELSE [ ok |-> FALSE, file |-> None, fs |-> fs ]

\* an operator arm, up to the `?`: the operator and the word after it are
\* taken from the iterator and the file is opened.  On an error
\* handle_redirect returns it, its handles are dropped, echo / execute make it
\* a RedirectionError and handle_cmd writes it to the diagnostic stream.
RedirectOpen ==
    /\ pc = "redirect"
    /\ iter # <<>>
    /\ Head(iter) \in STDOUT_OPS \cup STDERR_OPS
    /\ LET rest == Tail(iter)
           next == IF rest = <<>> THEN None ELSE Some(Head(rest))
           r == create_output_file(next, cwd, files)
       IN  /\ iter' = IF rest = <<>> THEN rest ELSE Tail(rest)
           /\ files' = r.fs
           /\ IF r.ok
              THEN /\ new_file' = r.file
                   /\ pc' = IF Head(iter) \in STDOUT_OPS
                            THEN "assign_stdout" ELSE "assign_stderr"
                   /\ UNCHANGED <<cmd_args, stdout_file, stderr_file, stderr>>
              ELSE /\ new_file' = None
                   /\ stdout_file' = None
                   /\ stderr_file' = None
                   /\ cmd_args' = <<>>
                   /\ stderr' = Append(stderr,
                                       Error("RedirectionError",
                                             IF IsSome(next) THEN Unwrap(next)
                                             ELSE <<>>))
                   /\ pc' = "flush"
    /\ UNCHANGED <<arm, input, tok_vars, stdout, spawned, env_vars, turns>>

\* an operator arm, the assignment: the handle the variable held is dropped
RedirectAssign ==
    /\ pc \in {"assign_stdout", "assign_stderr"}
    /\ IF pc = "assign_stdout"
       THEN stdout_file' = new_file /\ UNCHANGED stderr_file
       ELSE stderr_file' = new_file /\ UNCHANGED stdout_file
    /\ new_file' = None
    /\ pc' = "redirect"
    /\ UNCHANGED <<arm, input, tok_vars, iter, cmd_args, io_vars, env_vars,
                   turns>>

\* the iterator is exhausted: Ok((cmd_args, stdout_file, stderr_file))
RedirectDone ==
    /\ pc = "redirect"
    /\ iter = <<>>
    /\ pc' = IF arm = "echo" THEN "echo_write" ELSE "spawn"
    /\ UNCHANGED <<arm, input, tok_vars, redir_vars, io_vars, env_vars, turns>>

HandleRedirect == RedirectArg \/ RedirectOpen \/ RedirectAssign
                     \/ RedirectDone

---------------------------------------------------------------------------
(* echo and the external executor: main.rs echo, execute *)

\* handle_cmd: the "echo" arm
HandleEcho ==
    /\ pc = "handle_cmd"
    /\ Trim(cmd) = W_echo
    /\ EnterRedirect("echo")

\* echo without the newline of writeln!
EchoOutput_NoNewline(ca) == Join(ca, <<SPACE>>)

\* echo, after handle_redirect: the arguments joined by spaces and a newline
\* go to the stdout file, or else to the buffer of the shell's stdout; the
\* handles are dropped when echo returns
EchoOutput(ca) == Join(ca, <<SPACE>>) \o <<NEWLINE>>

EchoWrite ==
    /\ pc = "echo_write"
    /\ IF IsSome(stdout_file)
       THEN /\ files' = Appended(files, Unwrap(stdout_file), EchoOutput(cmd_args))
            /\ UNCHANGED stdout
       ELSE /\ stdout' = stdout \o EchoOutput(cmd_args)
            /\ UNCHANGED files
    /\ stdout_file' = None
    /\ stderr_file' = None
    /\ cmd_args' = <<>>
    /\ pc' = "flush"
    /\ UNCHANGED <<arm, input, tok_vars, iter, new_file, stderr, spawned,
                   env_vars, turns>>

\* handle_cmd: the `_` arm
HandleExecute ==
    /\ pc = "handle_cmd"
    /\ Trim(cmd) \notin BUILTINS
    /\ EnterRedirect("execute")

\* what a child may write to each of its two streams
ChildWrites == { <<>>, <<"o", NEWLINE>> }

\* Command::status: the program is looked up in the search path (a name
\* with a slash is a path) and started
CanSpawn(name, dir) ==
    /\ name # <<>>
    /\ IF \E i \in DOMAIN name : name[i] = "/"
       THEN Absolute(dir, name) \in Executables
       ELSE \E i \in DOMAIN SearchPath :
                Canonical(PathJoin(SearchPath[i], name)) \in Executables

\* the file system after a child wrote text to a stream that is a file
ChildWrote(fs, target, text) ==
    IF IsSome(target) THEN Appended(fs, Unwrap(target), text) ELSE fs

\* execute, after handle_redirect: the child is spawned on the clean
\* arguments with the two files as its streams and waited for; a spawn that
\* fails is CommandNotFound; the handles are dropped when execute returns
Spawn ==
    /\ pc = "spawn"
    /\ IF CanSpawn(cmd, cwd)
       THEN \E out \in ChildWrites, err \in ChildWrites :
              /\ spawned' = Some([ program |-> cmd, args |-> cmd_args,
                                   stdout |-> stdout_file,
                                   stderr |-> stderr_file ])
              /\ files' = ChildWrote(ChildWrote(files, stdout_file, out),
                                     stderr_file, err)
              /\ UNCHANGED stderr
       ELSE /\ stderr' = Append(stderr, Error("CommandNotFound", cmd))
            /\ UNCHANGED <<spawned, files>>
    /\ stdout_file' = None
    /\ stderr_file' = None
    /\ cmd_args' = <<>>
    /\ pc' = "flush"
    /\ UNCHANGED <<arm, input, tok_vars, iter, new_file, stdout, env_vars,
                   turns>>

---------------------------------------------------------------------------
(* The other builtins: main.rs exit, type_, pwd, cd *)

DigitValue(c) ==
    CASE c = "0" -> 0 [] c = "1" -> 1 [] c = "2" -> 2 [] c = "3" -> 3
      [] c = "4" -> 4 [] c = "5" -> 5 [] c = "6" -> 6 [] c = "7" -> 7
      [] c = "8" -> 8 [] c = "9" -> 9 [] OTHER -> -1

I32_MAX == 2147483647
I32_MIN == -2147483647 - 1

\* the digits read as a negative number, checked: None when a character is
\* no digit or the number is below I32_MIN (acc: the number so far, <= 0)
RECURSIVE NegativeOf(_, _)
NegativeOf(ds, acc) ==
    IF ds = <<>> THEN Some(acc)
    ELSE LET d == DigitValue(Head(ds))
         IN  IF \/ d < 0
                \/ acc < -214748364
                \/ (acc = -214748364 /\ d > 8)
             THEN None
             ELSE NegativeOf(Tail(ds), 10 * acc - d)

\* str::parse::<i32> without the sign: digits only
ParseI32_Unsigned(w) ==
    LET neg == IF w = <<>> THEN None ELSE NegativeOf(w, 0)
    IN  IF neg = None \/ Unwrap(neg) = I32_MIN THEN None
        ELSE Some(0 - Unwrap(neg))

\* str::parse::<i32>: an optional sign, then one digit or more, in range
ParseI32(w) ==
    LET signed == w # <<>> /\ Head(w) \in {"+", "-"}
        ds == IF signed THEN Tail(w) ELSE w
        neg == IF ds = <<>> THEN None ELSE NegativeOf(ds, 0)
    IN  IF neg = None THEN None
        ELSE IF signed /\ Head(w) = "-" THEN neg
        ELSE IF Unwrap(neg) = I32_MIN THEN None
        ELSE Some(0 - Unwrap(neg))

\* handle_cmd: the "exit" arm.  status is the code given to process::exit.
HandleExit ==
    /\ pc = "handle_cmd"
    /\ Trim(cmd) = W_exit
    /\ arm' = "exit"
    /\ IF args = None
       THEN /\ status' = Some(0)
            /\ pc' = "exited"
            /\ UNCHANGED stderr
       ELSE LET code == ParseI32(Head(Unwrap(args)))
            IN  IF IsSome(code)
                THEN /\ status' = code
                     /\ pc' = "exited"
                     /\ UNCHANGED stderr
                ELSE /\ stderr' = Append(stderr,
                                    Error("InvalidExitCode", Head(Unwrap(args))))
                     /\ pc' = "flush"
                     /\ UNCHANGED status
    /\ UNCHANGED <<input, tok_vars, redir_vars, stdout, files, spawned, cwd,
                   home, fatal, turns>>

\* find_exe_in_path: the first directory of the search path that holds name
RECURSIVE FindIn(_, _, _)
FindIn(dirs, name, fs) ==
    IF dirs = <<>> THEN None
    ELSE IF Exists(PathJoin(Head(dirs), name), fs)
         THEN Some(PathJoin(Head(dirs), name))
         ELSE FindIn(Tail(dirs), name, fs)

find_exe_in_path(name, fs) == FindIn(SearchPath, name, fs)

IS_A_SHELL_BUILTIN ==
    <<" ","i","s"," ","a"," ","s","h","e","l","l"," ","b","u","i","l","t",
      "i","n">>

\* handle_cmd: the "type" arm
HandleType ==
    /\ pc = "handle_cmd"
    /\ Trim(cmd) = W_type
    /\ arm' = "type"
    /\ IF args = None
       THEN UNCHANGED <<stdout, stderr>>
       ELSE LET arg == Head(Unwrap(args))
                path == find_exe_in_path(arg, files)
            IN  IF arg \in BUILTINS
                THEN /\ stdout' = stdout \o arg \o IS_A_SHELL_BUILTIN
                                         \o <<NEWLINE>>
                     /\ UNCHANGED stderr
                ELSE IF IsSome(path)
                THEN /\ stdout' = stdout \o arg \o <<" ","i","s"," ">>
                                         \o Unwrap(path) \o <<NEWLINE>>
                     /\ UNCHANGED stderr
                ELSE /\ stderr' = Append(stderr, Error("CommandNotFound", arg))
                     /\ UNCHANGED stdout
    /\ pc' = "flush"
    /\ UNCHANGED <<input, tok_vars, redir_vars, files, spawned, env_vars,
                   turns>>

\* the io::Error of an operation, as ShellError::IoError (error.rs From)
IoError(op) == Error("IoError", <<op>>)

\* env::current_dir(): Ok when the working directory can be read, Err when
\* it cannot (it was removed, or a parent cannot be searched)
CurrentDirOutcomes == { TRUE, FALSE }

\* handle_cmd: the "pwd" arm, `self.pwd()?`: the Err of pwd is returned by
\* handle_cmd, and by main
HandlePwd ==
    /\ pc = "handle_cmd"
    /\ Trim(cmd) = W_pwd
    /\ arm' = "pwd"
    /\ \E readable \in CurrentDirOutcomes :
          IF readable
          THEN /\ stdout' = stdout \o cwd \o <<NEWLINE>>
               /\ pc' = "flush"
               /\ UNCHANGED fatal
          ELSE /\ fatal' = Some(IoError("current_dir"))
               /\ pc' = "failed"
               /\ UNCHANGED stdout
    /\ UNCHANGED <<input, tok_vars, redir_vars, stderr, files, spawned,
                   cwd, home, status, turns>>

\* Path::starts_with("~"): the first component is `~`
StartsWithTilde(p) ==
    /\ ~IsAbsolute(p)
    /\ Components(p, <<>>) # <<>>
    /\ Head(Components(p, <<>>)) = <<"~">>

\* cd with `~` standing for the working directory, not for HOME
CdTarget_TildeIsHere(first, h, dir) ==
    LET path == IF IsSome(first) THEN Unwrap(first) ELSE h
    IN  IF StartsWithTilde(path)
        THEN PathJoin(dir, Join(Tail(Components(path, <<>>)), <<"/">>))
        ELSE IF IsAbsolute(path) THEN path
        ELSE PathJoin(dir, path)

\* cd: the path handed to set_current_dir
CdTarget(first, h, dir) ==
    LET path == IF IsSome(first) THEN Unwrap(first) ELSE h
    IN  IF StartsWithTilde(path)
        THEN PathJoin(h, Join(Tail(Components(path, <<>>)), <<"/">>))
        ELSE IF IsAbsolute(path) THEN path
        ELSE PathJoin(dir, path)

\* handle_cmd: the "cd" arm
HandleCd ==
    /\ pc = "handle_cmd"
    /\ Trim(cmd) = W_cd
    /\ arm' = "cd"
    /\ IF home = None
       THEN /\ stderr' = Append(stderr,
                                Error("EnvVarNotFound", <<"H","O","M","E">>))
            /\ UNCHANGED cwd
       ELSE LET first == IF IsSome(args) THEN Some(Head(Unwrap(args)))
                         ELSE None
                given == IF IsSome(first) THEN Unwrap(first)
                         ELSE Unwrap(home)
                relative == ~StartsWithTilde(given) /\ ~IsAbsolute(given)
                path == CdTarget(first, Unwrap(home), cwd)
            IN  \E readable \in (IF relative THEN CurrentDirOutcomes
                                  ELSE { TRUE }) :
                  IF ~readable
                  THEN /\ stderr' = Append(stderr, IoError("current_dir"))
                       /\ UNCHANGED cwd
                  ELSE IF Absolute(cwd, path) \in Dirs
                  THEN /\ cwd' = Absolute(cwd, path)
                       /\ UNCHANGED stderr
                  ELSE /\ stderr' = Append(stderr,
                                           Error("FileOrDirNotFound", path))
                       /\ UNCHANGED cwd
    /\ pc' = "flush"
    /\ UNCHANGED <<input, tok_vars, redir_vars, stdout, files, spawned, home,
                   status, fatal, turns>>

\* handle_cmd
HandleCmd == HandleExit \/ HandleEcho \/ HandleType \/ HandlePwd \/ HandleCd
                \/ HandleExecute

---------------------------------------------------------------------------
(* The read-eval-print loop: main.rs main *)

\* print_prompt: `$ ` is written and both streams are flushed
PrintPrompt ==
    /\ pc = "print_prompt"
    /\ stdout' = <<>>
    /\ stderr' = <<>>
    /\ pc' = "read_line"
    /\ UNCHANGED <<arm, input, tok_vars, redir_vars, files, spawned,
                   env_vars, turns>>

\* print_prompt: the write of the prompt to the terminal fails, and main
\* returns the Err (`shell.print_prompt()?`)
PrintPromptFails ==
    /\ pc = "print_prompt"
    /\ fatal' = Some(IoError("flush"))
    /\ pc' = "failed"
    /\ UNCHANGED <<arm, input, tok_vars, redir_vars, io_vars, cwd, home,
                   status, turns>>

\* the command words and the argument words of the lines that are read,
\* as they are written
CmdWords ==
    { W_echo, W_echo \o <<TAB>>, W_exit, W_type, W_pwd, W_cd, <<"l","s">>,
      <<"z","z">> }
ArgWords ==
    { <<">">>, <<DOUBLE_QUOTES, ">", DOUBLE_QUOTES>>, <<"2",">">>, <<"f">> }

\* lines that give each builtin an argument of every kind it tells apart
BuiltinLines ==
    { W_exit \o <<SPACE, "7">>, W_exit \o <<SPACE, "-", "1">>,
      W_type \o <<SPACE>> \o W_cd, W_type \o <<SPACE, "l", "s">>,
      W_type \o <<SPACE, "z", "z">>, W_cd \o <<SPACE, "h">>,
      W_cd \o <<SPACE, "~">>, W_cd \o <<SPACE, "/", "x">>,
      W_echo \o <<SPACE, ">", SPACE, "h">> }

\* the empty line and a line of whitespace
BlankLines == { <<>>, <<SPACE>>, <<SPACE, TAB>> }

Lines ==
    { Join(<<c>> \o a, <<SPACE>>) \o <<NEWLINE>> :
        c \in CmdWords, a \in SeqsUpTo(ArgWords, MaxArgs) }
    \cup { l \o <<NEWLINE>> : l \in BuiltinLines \cup BlankLines }

\* stdin.read_line(&mut input): a line with its newline, or nothing at the
\* end of the input
ReadLine ==
    /\ pc = "read_line"
    /\ turns < MaxTurns
    /\ input' \in Lines \cup {<<>>}
    /\ turns' = turns + 1
    /\ pc' = "parse_input"
    /\ UNCHANGED <<arm, tok_vars, redir_vars, io_vars, env_vars>>

\* stdin.read_line(&mut input)?: the read fails (the bytes are not UTF-8,
\* or the descriptor cannot be read), and main returns the Err
ReadLineFails ==
    /\ pc = "read_line"
    /\ fatal' = Some(IoError("read_line"))
    /\ pc' = "failed"
    /\ UNCHANGED <<arm, input, tok_vars, redir_vars, io_vars, cwd, home,
                   status, turns>>

\* shell.flush() and input.clear(), the end of a turn.  Shell.cmd and
\* Shell.args keep the words of the line until the next parse_input sets
\* them; nothing reads them before, and the model clears them here.
Flush ==
    /\ pc = "flush"
    /\ stdout' = <<>>
    /\ stderr' = <<>>
    /\ input' = <<>>
    /\ arm' = ""
    /\ cmd' = <<>>
    /\ args' = None
    /\ spawned' = None
    /\ pc' = "print_prompt"
    /\ UNCHANGED <<chars, cmd_local, curr_arg, args_local, in_single_quotes,
                   in_double_quotes, escape_next, redir_vars, files, env_vars,
                   turns>>

\* shell.flush()?: a buffer cannot be written out, and main returns the Err
FlushFails ==
    /\ pc = "flush"
    /\ fatal' = Some(IoError("flush"))
    /\ pc' = "failed"
    /\ UNCHANGED <<arm, input, tok_vars, redir_vars, io_vars, cwd, home,
                   status, turns>>

Init ==
    /\ Constructed
    /\ cmd = <<>>
    /\ args = None
    /\ pc = "print_prompt"
    /\ input = <<>>
    /\ files = <<>>
    /\ cwd = <<"/">>
    /\ home \in { None, Some(<<"/","h">>) }
    /\ turns = 0

Next == PrintPrompt \/ ReadLine \/ ParseInput \/ ParseCmdStep \/ ParseCmdEnd
           \/ ParseArgsStep \/ ParseArgsEnd \/ HandleExit \/ HandleEcho
           \/ HandleType \/ HandlePwd \/ HandleCd \/ HandleExecute
           \/ RedirectArg \/ RedirectOpen \/ RedirectAssign \/ RedirectDone
           \/ EchoWrite \/ Spawn \/ Flush \/ PrintPromptFails
           \/ ReadLineFails \/ FlushFails

Spec == Init /\ [][Next]_vars

---------------------------------------------------------------------------
(* The extractor, echo and the executor on every short argument sequence *)

RedirWords == STDOUT_OPS \cup STDERR_OPS \cup { <<"f">>, <<"h">> }

\* longer argument sequences: two directives and three directives for one
\* stream, and a clean argument with a directive for each stream
DirectiveArgs ==
    { << <<">">>, <<"f">>, <<">",">">>, <<"f">> >>,
      << <<"2",">">>, <<"f">>, <<">">>, <<"f">>, <<"1",">">>, <<"f">> >>,
      << <<"f">>, <<">">>, <<"f">>, <<"2",">">>, <<"f">> >> }

\* the state handle_cmd is entered in after the line `c a1 .. an` was read
\* and tokenized in the first turn, with or without a file f
InitRedir ==
    /\ Constructed
    /\ pc = "handle_cmd"
    /\ \E c \in { W_echo, <<"l","s">>, <<"z","z">> },
          a \in SeqsUpTo(RedirWords, MaxWords) \cup DirectiveArgs :
          /\ cmd = c
          /\ args = IF a = <<>> THEN None ELSE Some(a)
          /\ input = Join(<<c>> \o a, <<SPACE>>) \o <<NEWLINE>>
    /\ files \in { <<>>, (<<"/","f">> :> <<"x", NEWLINE>>) }
    /\ cwd = <<"/">>
    /\ home = Some(<<"/","h">>)
    /\ turns = 1

NextRedir == HandleEcho \/ HandleExecute \/ RedirectArg \/ RedirectOpen
                \/ RedirectAssign \/ RedirectDone \/ EchoWrite \/ Spawn
                \/ Flush \/ FlushFails \/ PrintPrompt \/ PrintPromptFails

SpecRedir == InitRedir /\ [][NextRedir]_vars

---------------------------------------------------------------------------
(* Claims about the tokenizer, checked under SpecTok *)

\* the scan of the line is over: self.cmd and self.args are set
Tokenized == pc = "handle_cmd"

\* the words the tokenizer produced: the command, then the arguments
Words == <<cmd>> \o (IF IsSome(args) THEN Unwrap(args) ELSE <<>>)

RECURSIVE Flatten(_)
Flatten(ws) == IF ws = <<>> THEN <<>> ELSE Head(ws) \o Flatten(Tail(ws))

NonEmptyWords == SelectSeq(Words, LAMBDA w : w # <<>>)

\* the last character the scan consumed
Consumed == Len(Trim(input)) - Len(chars)
LastScanned == Trim(input)[Consumed]

\* A line of the double-quote family: its double quotes are balanced, and
\* single quotes and backslashes occur inside double quotes only (inq: the
\* scan is inside double quotes).
RECURSIVE DQFamily(_, _)
DQFamily(s, inq) ==
    IF s = <<>> THEN ~inq
    ELSE LET c == Head(s) IN
         IF inq
         THEN CASE c = DOUBLE_QUOTES -> DQFamily(Tail(s), FALSE)
                [] c = BACKSLASH -> Len(s) >= 2 /\ DQFamily(Tail(Tail(s)), TRUE)
                [] OTHER -> DQFamily(Tail(s), TRUE)
         ELSE CASE c = DOUBLE_QUOTES -> DQFamily(Tail(s), TRUE)
                [] c \in {SINGLE_QUOTES, BACKSLASH} -> FALSE
                [] OTHER -> DQFamily(Tail(s), FALSE)

\* The characters C1 gives the words of a line of that family: inside double
\* quotes a backslash and the character after it yield that character when
\* it is one of \ $ " newline, and both characters otherwise.
RECURSIVE DQExpected(_, _)
DQExpected(s, inq) ==
    IF s = <<>> THEN <<>>
    ELSE LET c == Head(s) IN
         IF inq
         THEN CASE c = DOUBLE_QUOTES -> DQExpected(Tail(s), FALSE)
                [] c = BACKSLASH ->
                     (IF s[2] \in {BACKSLASH, PROMPT, DOUBLE_QUOTES, NEWLINE}
                      THEN <<s[2]>> ELSE <<BACKSLASH, s[2]>>)
                         \o DQExpected(Tail(Tail(s)), TRUE)
                [] OTHER -> <<c>> \o DQExpected(Tail(s), TRUE)
         ELSE CASE c = DOUBLE_QUOTES -> DQExpected(Tail(s), TRUE)
                [] c = SPACE -> DQExpected(Tail(s), FALSE)
                [] OTHER -> <<c>> \o DQExpected(Tail(s), FALSE)

\* C1: for every line with balanced double quotes, in every word produced
\* (the command word and the argument words), a backslash inside double
\* quotes followed by \ $ " or newline yields just that character, and
\* followed by any other character yields the backslash and the character:
\* the characters of the words, in order, are those of DQExpected.
C1_DoubleQuoteEscapes ==
    (Tokenized /\ DQFamily(Trim(input), FALSE))
        => Flatten(Words) = DQExpected(Trim(input), FALSE)

\* A line of the unquoted family: it has no quoting, every quote character
\* in it directly follows an escaping backslash, and no backslash ends it.
RECURSIVE UQFamily(_)
UQFamily(s) ==
    IF s = <<>> THEN TRUE
    ELSE CASE Head(s) = BACKSLASH -> Len(s) >= 2 /\ UQFamily(Tail(Tail(s)))
           [] Head(s) \in {SINGLE_QUOTES, DOUBLE_QUOTES} -> FALSE
           [] OTHER -> UQFamily(Tail(s))

\* The words C2 gives a line of that family: a backslash adds the next
\* character to the current word and is dropped, an unescaped space ends
\* the word (cur: the current word, acc: the words so far).
RECURSIVE UQExpected(_, _, _)
UQExpected(s, cur, acc) ==
    IF s = <<>> THEN (IF cur # <<>> THEN Append(acc, cur) ELSE acc)
    ELSE CASE Head(s) = BACKSLASH ->
                UQExpected(Tail(Tail(s)), Append(cur, s[2]), acc)
           [] Head(s) = SPACE ->
                UQExpected(Tail(s), <<>>,
                           IF cur # <<>> THEN Append(acc, cur) ELSE acc)
           [] OTHER -> UQExpected(Tail(s), Append(cur, Head(s)), acc)

\* C2: outside single and double quotes, in the command word and in the
\* argument words, a backslash escapes exactly the next character: it is
\* appended literally to the current word (a space does not end the word, a
\* quote opens no quoting) and the backslash is not retained.
C2_UnquotedBackslashEscapes ==
    (Tokenized /\ UQFamily(Trim(input)))
        => NonEmptyWords = UQExpected(Trim(input), <<>>, <<>>)

\* C3: for every line (that is not blank), no word the tokenizer emits, the
\* command word or an argument word, is the empty string.
C3_NoEmptyWord ==
    (Tokenized /\ Trim(input) # <<>>)
        => \A i \in DOMAIN Words : Words[i] # <<>>

\* C4: at every step of a scan the single-quote and double-quote flags are
\* never both set, and escape-pending is never set inside single quotes.
C4_QuoteFlagsExclusive ==
    /\ ~(in_single_quotes /\ in_double_quotes)
    /\ ~(escape_next /\ in_single_quotes)

\* parse_args has just scanned a double quote or a backslash inside single
\* quotes
C4_Witness ==
    /\ pc = "parse_args"
    /\ in_single_quotes
    /\ Consumed >= 1
    /\ LastScanned \in {DOUBLE_QUOTES, BACKSLASH}

---------------------------------------------------------------------------
(* Claims about the extractor, checked under SpecRedir *)

IsOperator(w) == w \in STDOUT_OPS \cup STDERR_OPS

\* the argument words of the line
ArgsOf(o) == IF IsSome(o) THEN Unwrap(o) ELSE <<>>

\* word i of ws is an operator string in operator position: it is not the
\* word right after an operator in operator position
RECURSIVE OperatorAt(_, _)
OperatorAt(ws, i) ==
    /\ i \in DOMAIN ws
    /\ IsOperator(ws[i])
    /\ ~(i > 1 /\ OperatorAt(ws, i - 1))

\* word i of ws directly follows an operator in operator position
DestinationAt(ws, i) == i > 1 /\ OperatorAt(ws, i - 1)

\* the words from i on that are neither, in their order
RECURSIVE CleanFrom(_, _)
CleanFrom(ws, i) ==
    IF i > Len(ws) THEN <<>>
    ELSE (IF OperatorAt(ws, i) \/ DestinationAt(ws, i) THEN <<>> ELSE <<ws[i]>>)
             \o CleanFrom(ws, i + 1)

\* handle_redirect has returned Ok to echo or to execute
Extracted == pc \in {"echo_write", "spawn"}

\* C5: for every argument-word sequence the extractor returns a result for,
\* the clean arguments are exactly the words, in their original order, that
\* are neither an operator string in operator position nor the word right
\* after one; that word is consumed even when it is an operator string.
C5_CleanArguments ==
    Extracted => cmd_args = CleanFrom(ArgsOf(args), 1)

\* an operator string was consumed as a destination and two clean arguments
\* remain, or an operator is followed by an operator string
C5_Witness ==
    /\ Extracted
    /\ \E i \in DOMAIN ArgsOf(args) :
          /\ DestinationAt(ArgsOf(args), i)
          /\ IsOperator(ArgsOf(args)[i])
    /\ cmd_args # <<>>

\* the extractor is at a trailing operator: the last word, in operator
\* position
AtTrailingOperator ==
    pc = "redirect" /\ Len(iter) = 1 /\ IsOperator(Head(iter))

\* the extractor has read a trailing operator and is about to assign
AssigningNone ==
    pc \in {"assign_stdout", "assign_stderr"} /\ iter = <<>> /\ new_file = None

\* C7: an operator that is the last word makes no error, opens and creates
\* no file and records no destination for its stream; the destination of the
\* other stream and the clean arguments stay what they were before it; and
\* the extraction then returns Ok.
C7_TrailingOperator ==
    /\ [][AtTrailingOperator =>
            /\ pc' = IF Head(iter) \in STDOUT_OPS THEN "assign_stdout"
                     ELSE "assign_stderr"
            /\ new_file' = None
            /\ iter' = <<>>
            /\ files' = files
            /\ stderr' = stderr
            /\ UNCHANGED <<cmd_args, stdout_file, stderr_file>>]_vars
    /\ [][AssigningNone =>
            /\ pc' = "redirect"
            /\ iter' = <<>>
            /\ IF pc = "assign_stdout"
               THEN stdout_file' = None /\ stderr_file' = stderr_file
               ELSE stderr_file' = None /\ stdout_file' = stdout_file
            /\ UNCHANGED <<cmd_args, files, stderr>>]_vars
    /\ [][(pc = "redirect" /\ iter = <<>>) => Extracted']_vars

\* the extraction returned Ok on a line that ends with a stdout operator
\* and sends stderr to a file
C7_Witness ==
    /\ Extracted
    /\ IsSome(args)
    /\ OperatorAt(Unwrap(args), Len(Unwrap(args)))
    /\ Unwrap(args)[Len(Unwrap(args))] \in STDOUT_OPS
    /\ stdout_file = None
    /\ IsSome(stderr_file)

---------------------------------------------------------------------------
(* Claims about the interpreter, checked under Spec *)

\* the line split at its spaces: the words as they are written
RECURSIVE SplitAtSpaces(_, _)
SplitAtSpaces(s, cur) ==
    IF s = <<>> THEN (IF cur = <<>> THEN <<>> ELSE <<cur>>)
    ELSE IF Head(s) = SPACE
         THEN (IF cur = <<>> THEN <<>> ELSE <<cur>>) \o SplitAtSpaces(Tail(s), <<>>)
         ELSE SplitAtSpaces(Tail(s), Append(cur, Head(s)))

WrittenWords == SplitAtSpaces(Trim(input), <<>>)

\* no word of the line, as it is written, is an operator string
NoOperatorWritten ==
    \A i \in DOMAIN WrittenWords : ~IsOperator(WrittenWords[i])

\* C6: an operator is recognized only when it is written as a standalone
\* unquoted word: on a line where no written word is an operator string
\* (the operator strings on it are quoted or escaped), the extractor records
\* no destination, consumes no word and passes every argument on as a clean
\* argument.
C6_QuotedOperatorIsArgument ==
    (Extracted /\ NoOperatorWritten)
        => /\ stdout_file = None
           /\ stderr_file = None
           /\ cmd_args = ArgsOf(args)

\* x is a prefix of y
IsPrefix(x, y) == Len(x) <= Len(y) /\ SubSeq(y, 1, Len(x)) = x

\* C8: no operator truncates a destination file: every file that exists
\* stays and its content before a step is a prefix of its content after; a
\* destination that is opened exists from then on; and what echo writes to
\* a destination is appended to what the file held.
C8_DestinationsAppendOnly ==
    /\ [][\A p \in DOMAIN files :
            p \in DOMAIN files' /\ IsPrefix(files[p], files'[p])]_vars
    /\ [][(pc = "redirect" /\ IsSome(new_file'))
            => Unwrap(new_file') \in DOMAIN files']_vars
    /\ [][(pc = "echo_write" /\ IsSome(stdout_file))
            => files'[Unwrap(stdout_file)]
                 = files[Unwrap(stdout_file)]
                     \o Join(cmd_args, <<SPACE>>) \o <<NEWLINE>>]_vars

\* the second command has written to the file the first one wrote to, with
\* the `>` operator: `ls > f` and then `echo > f`
C8_Witness ==
    /\ pc = "flush"
    /\ arm = "echo"
    /\ args = Some(<< <<">">>, <<"f">> >>)
    /\ <<"/","f">> \in DOMAIN files
    /\ files[<<"/","f">>] = <<"o", NEWLINE, NEWLINE>>

\* the line has a stdout operator in operator position with a word after it
HasStdoutDirective(ws) ==
    \E i \in DOMAIN ws :
        OperatorAt(ws, i) /\ ws[i] \in STDOUT_OPS /\ i < Len(ws)

\* C9: every builtin runs on the clean arguments and the handles of the
\* extractor: with a stdout directive on the line nothing of a builtin goes
\* to the shell's own standard output, and the first argument exit reads is
\* the first clean argument (none: status 0; an integer n: status n; else
\* no exit).
C9_BuiltinsUseExtraction ==
    /\ (pc = "flush" /\ arm \in {"exit", "echo", "type", "pwd", "cd"}
          /\ HasStdoutDirective(ArgsOf(args)))
         => stdout = <<>>
    /\ (pc \in {"flush", "exited"} /\ arm = "exit")
         => LET clean == CleanFrom(ArgsOf(args), 1)
            IN  IF clean = <<>> THEN status = Some(0)
                ELSE IF IsSome(ParseI32(clean[1]))
                     THEN status = ParseI32(clean[1])
                     ELSE status = None

\* the handler of a command word: the builtin of exactly that name, or the
\* external executor
HandlerOf(w) ==
    CASE w = W_cd -> "cd"
      [] w = W_echo -> "echo"
      [] w = W_exit -> "exit"
      [] w = W_pwd -> "pwd"
      [] w = W_type -> "type"
      [] OTHER -> "execute"

\* C10: the handler that runs in a turn is the builtin whose name equals the
\* command word exactly, with no trimming of the command word, and the
\* external executor when the command word is none of the five names.
C10_ExactDispatch ==
    arm # "" => arm = HandlerOf(cmd)

---------------------------------------------------------------------------
(* Claims about the builtins and the loop, checked under Spec *)

\* the decimal digit a character stands for
DigitOf(c) == CHOOSE n \in 0..9 : ToString(n) = c

\* w is an optional sign and then one decimal digit or more
IsSignedDecimal(w) ==
    LET ds == IF w # <<>> /\ Head(w) \in {"+", "-"} THEN Tail(w) ELSE w
    IN  ds # <<>> /\ \A i \in DOMAIN ds : \E n \in 0..9 : ToString(n) = ds[i]

RECURSIVE DecimalValue(_)
DecimalValue(ds) ==
    IF ds = <<>> THEN 0
    ELSE 10 * DecimalValue(SubSeq(ds, 1, Len(ds) - 1)) + DigitOf(ds[Len(ds)])

\* the integer a signed decimal stands for
IntegerOf(w) ==
    IF Head(w) = "-" THEN 0 - DecimalValue(Tail(w))
    ELSE IF Head(w) = "+" THEN DecimalValue(Tail(w))
    ELSE DecimalValue(w)

\* a signed decimal short enough to be in the range of every signed
\* integer type of 32 bits or more
ShortInteger(w) == IsSignedDecimal(w) /\ Len(w) <= 9

\* main has returned the Err of a write or a flush of the shell's own
\* output or diagnostic stream
OutputStreamFailed == pc = "failed" /\ fatal = Some(IoError("flush"))

\* C11: exit with no argument ends the process with status 0; with a first
\* argument that is a signed integer n it ends the process with status n;
\* with a first argument that is no integer it writes the one
\* invalid-exit-code diagnostic, the process does not end, and the loop
\* goes on to the next prompt and the next read, unless the shell's own
\* stream fails.  Nothing happens after the process has ended.
C11_Exit ==
    /\ [][(pc = "handle_cmd" /\ arm' = "exit") =>
            LET first == Head(Unwrap(args))
            IN  IF args = None
                THEN pc' = "exited" /\ status' = Some(0) /\ stderr' = stderr
                ELSE IF ShortInteger(first)
                THEN /\ pc' = "exited"
                     /\ status' = Some(IntegerOf(first))
                     /\ stderr' = stderr
                ELSE IF ~IsSignedDecimal(first)
                THEN /\ pc' = "flush"
                     /\ status' = None
                     /\ fatal' = None
                     /\ stderr' = << Error("InvalidExitCode", first) >>
                ELSE TRUE]_vars
    /\ [][(pc = "flush" /\ arm = "exit") =>
            pc' = "print_prompt" \/ OutputStreamFailed']_vars
    /\ [][pc = "print_prompt" => pc' = "read_line" \/ OutputStreamFailed']_vars
    /\ [][pc # "exited"]_vars

\* exit was given a word that is no integer and has written its diagnostic
C11_Witness ==
    /\ pc = "flush"
    /\ arm = "exit"
    /\ IsSome(args)
    /\ status = None
    /\ stderr = << Error("InvalidExitCode", Head(Unwrap(args))) >>

\* a diagnostic of the kind k is among those written in this turn
Reported(k) == \E i \in DOMAIN stderr : stderr[i].kind = k

\* C12: type with no argument is an error: the turn writes the
\* missing-arguments diagnostic ("arguments are required") and never ends
\* silently as a success.
C12_TypeNeedsArguments ==
    (pc = "flush" /\ arm = "type" /\ args = None)
        => /\ Len(stderr) = 1
           /\ Reported("NoArguments")

\* the target of cd needs HOME: there is none, or it starts with `~`
HomeRequired == args = None \/ Head(Head(Unwrap(args))) = "~"

\* C13: cd reports environment-variable-not-found exactly when HOME is
\* required (no target, or a target that starts with `~`) and unset; with an
\* absolute target, or a relative target that does not start with `~`, an
\* unset HOME has no effect.
C13_HomeOnlyWhenRequired ==
    (pc = "flush" /\ arm = "cd")
        => (Reported("EnvVarNotFound") <=> (home = None /\ HomeRequired))

\* the directory cd is asked for: HOME for no argument and for `~`, the
\* target itself when it is absolute, and else the target below the
\* working directory
CdGoal(a, h, dir) ==
    IF a = None THEN h
    ELSE LET t == Head(Unwrap(a))
         IN  IF t = <<"~">> THEN h
             ELSE IF Head(t) = "~" /\ Len(t) > 1 /\ t[2] = "/"
                  THEN h \o Tail(t)
             ELSE IF Head(t) = "/" THEN t
             ELSE IF dir = <<"/">> THEN dir \o t
             ELSE dir \o <<"/">> \o t

\* C14: the working directory changes only in a step of cd that reports no
\* error, and then to the directory that cd was asked for (HOME for no
\* argument or `~`); a cd that reports an error and every other step leave
\* it as it was; and a pwd that reads the working directory prints exactly
\* it, followed by a newline.
C14_WorkingDirectory ==
    /\ [][cwd' # cwd =>
            /\ pc = "handle_cmd"
            /\ arm' = "cd"
            /\ stderr' = stderr]_vars
    /\ [][(pc = "handle_cmd" /\ arm' = "cd" /\ stderr' = stderr) =>
            /\ IsSome(home)
            /\ cwd' = CdGoal(args, Unwrap(home), cwd)]_vars
    /\ [][(pc = "handle_cmd" /\ arm' = "pwd" /\ fatal' = None) =>
            /\ stdout' = cwd \o <<NEWLINE>>
            /\ cwd' = cwd]_vars

\* pwd has printed the directory an earlier cd in this run has set
C14_Witness ==
    /\ pc = "flush"
    /\ arm = "pwd"
    /\ cwd = <<"/","h">>
    /\ stdout = <<"/","h",NEWLINE>>

\* main has returned the Err of a read or a write of one of the shell's
\* own streams
StreamFailed ==
    /\ pc = "failed"
    /\ fatal \in { Some(IoError("flush")), Some(IoError("read_line")) }

\* C15: an error of a builtin (pwd that cannot read the working directory
\* among them) or of the executor becomes one diagnostic line of the turn,
\* after which the loop goes on; the process ends only through exit or
\* through a failure of the shell's own streams.
C15_ErrorsAreDiagnostics ==
    /\ pc = "failed" => StreamFailed
    /\ pc = "exited" => arm = "exit"
    /\ pc = "flush" => Len(stderr) <= 1

---------------------------------------------------------------------------
(* Claims about the handles, echo and the executor, checked under
   SpecRedir *)

\* 1 when the Option holds a handle
HandleCount(o) == IF IsSome(o) THEN 1 ELSE 0

\* the redirection handles that are open
OpenHandles ==
    HandleCount(stdout_file) + HandleCount(stderr_file) + HandleCount(new_file)

\* the handles that are open for the stream of the operators ops: the one
\* recorded and the one just opened for it
OpenFor(recorded, assigning) ==
    HandleCount(recorded) + (IF pc = assigning THEN HandleCount(new_file) ELSE 0)

\* C16: at most two redirection handles are open in every state, at most
\* one for each stream, also while several directives for one stream are
\* extracted; and none is open when the turn is over and while the next
\* line is read.
C16_AtMostTwoHandles ==
    /\ OpenHandles <= 2
    /\ OpenFor(stdout_file, "assign_stdout") <= 1
    /\ OpenFor(stderr_file, "assign_stderr") <= 1
    /\ pc \in {"flush", "print_prompt", "read_line"} => OpenHandles = 0

\* the last stdout operator in operator position, 0 when there is none
LastStdoutOperator(ws) ==
    LET S == { i \in DOMAIN ws : OperatorAt(ws, i) /\ ws[i] \in STDOUT_OPS }
    IN  IF S = {} THEN 0 ELSE CHOOSE i \in S : \A j \in S : j <= i

\* the stdout destination of the line: the file named after the last stdout
\* operator, if a word follows it
StdoutDestination(ws, dir) ==
    LET i == LastStdoutOperator(ws)
    IN  IF i = 0 \/ i = Len(ws) THEN None ELSE Some(Absolute(dir, ws[i + 1]))

\* C17: echo writes the clean arguments joined by single spaces and one
\* newline to exactly one place: to the end of the stdout destination of
\* the line when there is one, and then nothing to the shell's standard
\* output; else to the shell's standard output, and then nothing to a file.
\* A stderr directive does not change the place, and echo writes no
\* diagnostic.
C17_EchoWritesOnce ==
    [][pc = "echo_write" =>
         LET ws == ArgsOf(args)
             text == Join(CleanFrom(ws, 1), <<SPACE>>) \o <<NEWLINE>>
             dest == StdoutDestination(ws, cwd)
         IN  /\ stderr' = stderr
             /\ IF IsSome(dest)
                THEN /\ stdout' = stdout
                     /\ files' = [ files EXCEPT ![Unwrap(dest)] = @ \o text ]
                ELSE /\ stdout' = stdout \o text
                     /\ files' = files]_vars

\* `echo f > f` has appended its line to the file f, which held a line
C17_Witness ==
    /\ pc = "flush"
    /\ arm = "echo"
    /\ args = Some(<< <<"f">>, <<">">>, <<"f">> >>)
    /\ stdout = <<>>
    /\ <<"/","f">> \in DOMAIN files
    /\ files[<<"/","f">>] = <<"x", NEWLINE, "f", NEWLINE>>

\* every file of fs is in fs2 with the content it had, and the other files
\* of fs2 are empty
ContentKept(fs, fs2) ==
    /\ DOMAIN fs \subseteq DOMAIN fs2
    /\ \A p \in DOMAIN fs2 : fs2[p] = IF p \in DOMAIN fs THEN fs[p] ELSE <<>>

\* execute is running a command word that cannot be spawned
FailingExecute ==
    /\ arm = "execute"
    /\ ~CanSpawn(cmd, cwd)
    /\ pc \in {"redirect", "assign_stdout", "assign_stderr", "spawn"}

\* C18, as it is claimed: when the command cannot be spawned, a
\* command-not-found diagnostic is reported, nothing is written to the
\* shell's standard output or to a destination, and the destination files
\* of the line are left as they were before the turn.
C18_DestinationsUntouched ==
    /\ [][FailingExecute => (stdout' = stdout /\ files' = files)]_vars
    /\ (pc = "flush" /\ arm = "execute" /\ ~CanSpawn(cmd, cwd))
          => Reported("CommandNotFound")

\* C18, amended: when the spawn fails, the command-not-found diagnostic is
\* the one diagnostic of the turn and no child was started; and in every
\* step of a turn whose command cannot be spawned nothing is written to the
\* shell's standard output and every file keeps its content, but a
\* destination of the line that did not exist is created, empty.
C18_NoOutputOnSpawnFailure ==
    /\ [][FailingExecute =>
            /\ stdout' = stdout
            /\ spawned' = None
            /\ ContentKept(files, files')]_vars
    /\ [][(FailingExecute /\ pc = "spawn") =>
            /\ stderr' = << Error("CommandNotFound", cmd) >>
            /\ files' = files
            /\ pc' = "flush"]_vars

\* `zz > f`: command-not-found was reported and the file f, which did not
\* exist, is there and empty
C18_Witness ==
    /\ pc = "flush"
    /\ arm = "execute"
    /\ Reported("CommandNotFound")
    /\ spawned = None
    /\ <<"/","f">> \in DOMAIN files
    /\ files[<<"/","f">>] = <<>>

\* a destination of the line cannot be opened or created
Unopenable(ws) ==
    \E i \in DOMAIN ws : DestinationAt(ws, i) /\ ~CanOpen(cwd, ws[i])

\* echo or execute is running a line with such a destination
FailingRedirection ==
    /\ arm \in {"echo", "execute"}
    /\ Unopenable(ArgsOf(args))

\* C19: on a line with a destination that cannot be opened or created, echo
\* and execute never get past the extraction: nothing is written to the
\* shell's standard output, no text is added to a file, no child is
\* started; the turn ends with the redirection error as its one diagnostic,
\* also when the command word cannot be spawned; and the loop goes on to the
\* next prompt unless the shell's own stream fails.
C19_RedirectionErrorFirst ==
    /\ [][(FailingRedirection /\ pc # "flush") =>
            /\ stdout' = stdout
            /\ spawned' = None
            /\ ContentKept(files, files')
            /\ pc' \notin {"echo_write", "spawn"}]_vars
    /\ (FailingRedirection /\ pc = "flush") =>
            /\ stderr = << stderr[1] >>
            /\ Reported("RedirectionError")
            /\ fatal = None
    /\ [][(FailingRedirection /\ pc = "flush") =>
            (pc' = "print_prompt" \/ OutputStreamFailed')]_vars

\* `zz > h`, h a directory: the redirection error is the diagnostic of a
\* command that could not be spawned either
C19_Witness ==
    /\ pc = "flush"
    /\ arm = "execute"
    /\ ~CanSpawn(cmd, cwd)
    /\ Unopenable(ArgsOf(args))
    /\ Reported("RedirectionError")
    /\ ~Reported("CommandNotFound")

---------------------------------------------------------------------------
(* The end of the loop, checked under Spec *)

\* a turn is running on a read that gave no character, or on a line that is
\* empty or all whitespace
BlankTurn == turns > 0 /\ Trim(input) = <<>>

\* such a turn is not skipped: the line is tokenized to the empty command
\* word with no argument, the external executor is the handler, the one
\* diagnostic of the turn is command-not-found, nothing is written, and the
\* loop goes on to the next prompt unless a stream of the shell fails
BlankTurnIsExecuted ==
    /\ (BlankTurn /\ pc = "handle_cmd") => (cmd = <<>> /\ args = None)
    /\ (BlankTurn /\ arm # "") => arm = "execute"
    /\ (BlankTurn /\ pc = "flush") =>
            /\ stderr = << Error("CommandNotFound", <<>>) >>
            /\ stdout = <<>>
            /\ spawned = None
    /\ [][(BlankTurn /\ pc = "parse_input") => pc' = "parse_cmd"]_vars
    /\ [][(BlankTurn /\ pc = "flush") =>
            (pc' = "print_prompt" \/ StreamFailed')]_vars

\* C20: the loop ends only through exit or through a failure of a stream of
\* the shell; at the end of the input, and on an empty or all-whitespace
\* line, the turn is executed as the empty command and the loop goes on.
C20_LoopEndsOnlyThroughExit ==
    /\ [][pc' = "failed" => StreamFailed']_vars
    /\ [][pc' = "exited" => (pc = "handle_cmd" /\ arm' = "exit")]_vars
    /\ BlankTurnIsExecuted

===========================================================================
